---- MODULE Spec2Model ----
(***************************************************************************)
(* Model of the exercise-form coach: the desktop loops of src/app.py (the  *)
(* plank hold timer and the criss-cross metronome), the frame relay of     *)
(* src/server/app.py, and the angle helper both share.                     *)
(*                                                                         *)
(* Numbers.  Python floats are modelled in fixed point: pixel coordinates  *)
(* are integers, lengths and cosines carry Scale = 1000 units per 1.0 and  *)
(* every arithmetic step rounds to the nearest unit, as an IEEE operation  *)
(* rounds to the nearest double.  Times are integer ticks.  An Optional    *)
(* value is a sequence: <<>> is None, <<v>> is the value v.                *)
(***************************************************************************)
EXTENDS Integers, Sequences, FiniteSets, TLC

VARIABLES
    pc,                  \* position of the running host
    clock,               \* latest reading of time.time()
    \* ---- run_plank_exercise
    plank_mode, target_time, stop_plank, last_time, delta, elapsed,
    remaining, in_good_position,
    prev_elapsed,        \* history: elapsed at the start of the latest evaluated frame
    \* ---- both loops: results.pose_landmarks of the latest frame, and the angle
    detected, angle,
    \* ---- run_criss_cross_exercise
    beep_interval, stop_criss_cross, last_beep_time,
    hands_together, legs_spread, in_correct_position,
    check_time,          \* the reading of time.time() in the test of line 175
    beeped,              \* beepy.beep was called in the latest frame
    beeps,               \* history: number of calls of beepy.beep
    prev_beep_time,      \* history: last_beep_time at the start of the latest frame
    on_boundary,         \* history: some frame was evaluated exactly on a multiple of the interval
    \* ---- pixel points fed to the geometry (pure-function specifications, server)
    points,
    \* ---- server
    frame_data, result, reply

plankVars == <<plank_mode, target_time, stop_plank, last_time, delta, elapsed,
               remaining, in_good_position, prev_elapsed>>
crissVars == <<beep_interval, stop_criss_cross, last_beep_time, check_time,
               beeped, beeps, prev_beep_time, on_boundary>>
formVars == <<hands_together, legs_spread, in_correct_position>>
serverVars == <<frame_data, result, reply>>
vars == <<pc, clock, plankVars, detected, angle, crissVars, formVars, points,
          serverVars>>

(***************************************************************************)
(* Bounds of the model.                                                    *)
(***************************************************************************)
MaxCoord == 3        \* ear, shoulder, hip pixel coordinates range over 0..MaxCoord
MaxCell == 3         \* wrist, shoulder, ankle coordinates: 0..MaxCell cells of PixelStep pixels
MaxTarget == 2       \* target durations 1..MaxTarget ticks
MaxDelta == 2        \* ticks between two plank frames
MaxPlankClock == 4   \* the plank clock stops here
MaxGap == 3          \* ticks between two criss-cross frames
MaxBeepTime == 1     \* ticks beepy.beep blocks before the second time.time()
MaxCueClock == 12    \* the criss-cross clock stops here
MaxSetBack == 2      \* ticks by which the system clock can be set back at once

(***************************************************************************)
(* Fixed-point arithmetic.                                                 *)
(***************************************************************************)
Scale == 1000
PixelStep == 50

Abs(x) == IF x < 0 THEN -x ELSE x
Max(x, y) == IF x >= y THEN x ELSE y
Min(x, y) == IF x <= y THEN x ELSE y

\* x / y rounded to the nearest integer (y > 0), half away from zero.
RoundDiv(x, y) ==
    IF x >= 0 THEN (2 * x + y) \div (2 * y) ELSE -((2 * (-x) + y) \div (2 * y))

\* sqrt(n) in Scale units, rounded to the nearest unit.
SqrtTable ==
    [n \in 0..(2 * (MaxCoord + 1) * (MaxCoord + 1)) |->
        CHOOSE r \in 0..(2 * (MaxCoord + 1) * Scale) :
            /\ (2 * r - 1) * (2 * r - 1) <= 4 * n * Scale * Scale \/ r = 0
            /\ 4 * n * Scale * Scale < (2 * r + 1) * (2 * r + 1)]

\* math.hypot(*v)
hypot(v) == SqrtTable[v[1] * v[1] + v[2] * v[2]]

\* Scale * cos(k degrees), truncated toward zero, k = 0..180 at index k + 1.
CosTable == <<
    1000, 999, 999, 998, 997, 996, 994, 992, 990, 987, 984, 981, 978, 974, 970,
    965, 961, 956, 951, 945, 939, 933, 927, 920, 913, 906, 898, 891, 882, 874,
    866, 857, 848, 838, 829, 819, 809, 798, 788, 777, 766, 754, 743, 731, 719,
    707, 694, 681, 669, 656, 642, 629, 615, 601, 587, 573, 559, 544, 529, 515,
    500, 484, 469, 453, 438, 422, 406, 390, 374, 358, 342, 325, 309, 292, 275,
    258, 241, 224, 207, 190, 173, 156, 139, 121, 104, 87, 69, 52, 34, 17,
    0, -17, -34, -52, -69, -87, -104, -121, -139, -156, -173, -190, -207, -224,
    -241, -258, -275, -292, -309, -325, -342, -358, -374, -390, -406, -422,
    -438, -453, -469, -484, -499, -515, -529, -544, -559, -573, -587, -601,
    -615, -629, -642, -656, -669, -681, -694, -707, -719, -731, -743, -754,
    -766, -777, -788, -798, -809, -819, -829, -838, -848, -857, -866, -874,
    -882, -891, -898, -906, -913, -920, -927, -933, -939, -945, -951, -956,
    -961, -965, -970, -974, -978, -981, -984, -987, -990, -992, -994, -996,
    -997, -998, -999, -999, -1000 >>

\* A function's outcome: the value it returns, or the exception it raises.
Returned(v) == [exc |-> "none", value |-> v]
Raised(e) == [exc |-> e, value |-> 0]

\* math.degrees(math.acos(c)) in whole degrees (what int(angle) and the band
\* test read); math.acos raises ValueError outside [-1, 1].
acos_degrees(c) ==
    IF c < -Scale \/ c > Scale
    THEN Raised("ValueError")
    ELSE Returned(CHOOSE k \in 0..180 :
                     /\ CosTable[k + 1] >= c
                     /\ (k = 180 \/ CosTable[k + 2] < c))

clamp_cosine_Missing(c) == c

\* cosine_angle = max(-1, min(1, cosine_angle))
clamp_cosine(c) == Max(-Scale, Min(Scale, c))

\* dot / (norm_ba * norm_bc); Python raises ZeroDivisionError on a zero divisor.
divide(dot, prod) ==
    IF prod = 0
    THEN Raised("ZeroDivisionError")
    ELSE Returned(RoundDiv(dot * Scale * Scale, prod))

is_degenerate_Never(prod) == FALSE

\* The guard of the degenerate case: if norm_ba * norm_bc == 0: return 0
is_degenerate(prod) == prod = 0

\* Lines 10-14: norm_ba * norm_bc
norm_product(a, b, c) ==
    LET ba == <<a[1] - b[1], a[2] - b[2]>>
        bc == <<c[1] - b[1], c[2] - b[2]>>
        norm_ba == hypot(<<Abs(ba[1]), Abs(ba[2])>>)
        norm_bc == hypot(<<Abs(bc[1]), Abs(bc[2])>>)
    IN  RoundDiv(norm_ba * norm_bc, Scale)

\* Lines 10-12: dot
dot_product(a, b, c) ==
    (a[1] - b[1]) * (c[1] - b[1]) + (a[2] - b[2]) * (c[2] - b[2])

calculate_angle(a, b, c) ==
    LET dot == dot_product(a, b, c)
        prod == norm_product(a, b, c)
        cosine_angle == divide(dot, prod)
    IN  IF is_degenerate(prod)
        THEN Returned(0)
        ELSE IF cosine_angle.exc # "none"
             THEN cosine_angle
             ELSE acos_degrees(clamp_cosine(cosine_angle.value))

\* The band of a straight back: 160 <= angle <= 200
BandLow == 160
BandHigh == 200
in_band(ang) == BandLow <= ang /\ ang <= BandHigh

Grid == (0..MaxCoord) \X (0..MaxCoord)
Triples == Grid \X Grid \X Grid


(***************************************************************************)
(* Desktop host, shared by both loops.                                     *)
(***************************************************************************)
\* What pose.process and the angle of lines 58-70 can give for a frame: no
\* landmarks, or the angle of some ear, shoulder, hip pixel triple.
NoLandmarks == [detected |-> FALSE, res |-> Returned(0)]
PlankPoseOutcomes ==
    {NoLandmarks} \cup
    {[detected |-> TRUE, res |-> calculate_angle(t[1], t[2], t[3])] : t \in Triples}

(***************************************************************************)
(* run_plank_exercise                                                      *)
(***************************************************************************)
\* Lines 203-212.  Plank time is counted in ticks; the durations the widget
\* offers (10..600 s) are sampled by the targets of 1..MaxTarget ticks.
PlankModes == {"Normal", "Hardcore"}
TargetTimes == 1..MaxTarget

frame_default_Stale(previous) == previous

\* Line 57: in_good_position = False at the start of every frame, whatever
\* the previous frame's verdict was.
frame_default(previous) == FALSE

\* Lines 57-76: in_good_position of a frame.
good_position(pose, previous) ==
    IF pose.detected /\ in_band(pose.res.value) THEN TRUE ELSE frame_default(previous)

update_timer_NoReset(el, d, good, mode) == IF good THEN el + d ELSE el

update_timer_NoPause(el, d, good, mode) ==
    IF good THEN el + d
    ELSE IF mode = "Hardcore" THEN 0 ELSE el + d

\* Lines 84-90: the timer after a frame.
update_timer(el, d, good, mode) ==
    IF good THEN el + d
    ELSE IF mode = "Hardcore" THEN 0 ELSE el

\* Line 92
remaining_time(target, el) == Max(target - el, 0)

plank_done_Strict(rem) == rem < 0

\* Line 98
plank_done(rem) == rem <= 0

\* Lines 213-215 and 24-42: the Start Plank button, up to the loop head.
StartPlank ==
    /\ pc = "idle"
    /\ \E target \in TargetTimes, mode \in PlankModes, opened \in BOOLEAN :
        /\ target_time' = target
        /\ plank_mode' = mode
        /\ pc' = IF opened THEN "plank_loop" ELSE "plank_exited"
    /\ stop_plank' = FALSE
    /\ elapsed' = 0
    /\ last_time' = clock
    /\ UNCHANGED <<clock, delta, remaining, in_good_position, prev_elapsed,
                   detected, angle, crissVars, formVars, points, serverVars>>

\* The on_click callback of the Stop Plank button.
PressStopPlank ==
    /\ pc = "plank_loop"
    /\ ~stop_plank
    /\ stop_plank' = TRUE
    /\ UNCHANGED <<pc, clock, plank_mode, target_time, last_time, delta, elapsed,
                   remaining, in_good_position, prev_elapsed, detected, angle,
                   crissVars, formVars, points, serverVars>>

\* Line 44 with the stop flag set, then cap.release().
PlankLoopExit ==
    /\ pc = "plank_loop"
    /\ stop_plank
    /\ pc' = "plank_exited"
    /\ UNCHANGED <<clock, plankVars, detected, angle, crissVars, formVars,
                   points, serverVars>>

\* Lines 44-51: an iteration in which cap.read() fails, then cap.release().
PlankReadFails ==
    /\ pc = "plank_loop"
    /\ ~stop_plank
    /\ \E d \in 0..MaxDelta :
        LET current_time == clock + d
        IN  /\ current_time <= MaxPlankClock
            /\ clock' = current_time
            /\ delta' = current_time - last_time
            /\ last_time' = current_time
    /\ pc' = "plank_exited"
    /\ UNCHANGED <<plank_mode, target_time, stop_plank, elapsed, remaining,
                   in_good_position, prev_elapsed, detected, angle, crissVars,
                   formVars, points, serverVars>>

\* One iteration of the loop with a frame read, lines 44-102.
PlankFrame ==
    /\ pc = "plank_loop"
    /\ ~stop_plank
    /\ \E d \in 0..MaxDelta, pose \in PlankPoseOutcomes :
        LET current_time == clock + d
            good == good_position(pose, in_good_position)
            el == update_timer(elapsed, current_time - last_time, good, plank_mode)
            rem == remaining_time(target_time, el)
        IN  /\ current_time <= MaxPlankClock
            /\ clock' = current_time
            /\ delta' = current_time - last_time
            /\ last_time' = current_time
            /\ IF pose.detected /\ pose.res.exc # "none"
               THEN /\ pc' = "plank_crashed"
                    /\ detected' = TRUE
                    /\ in_good_position' = FALSE
                    /\ UNCHANGED <<elapsed, remaining, prev_elapsed, angle>>
               ELSE /\ detected' = pose.detected
                    /\ angle' = IF pose.detected THEN <<pose.res.value>> ELSE angle
                    /\ in_good_position' = good
                    /\ prev_elapsed' = elapsed
                    /\ elapsed' = el
                    /\ remaining' = rem
                    /\ pc' = IF plank_done(rem) THEN "plank_complete" ELSE "plank_loop"
    /\ UNCHANGED <<plank_mode, target_time, stop_plank, crissVars, formVars,
                   points, serverVars>>

(***************************************************************************)
(* run_criss_cross_exercise                                                *)
(***************************************************************************)
HandThreshold == 100
LegThreshold == 150

Cells == {k * PixelStep : k \in 0..MaxCell}
WristPoints == Cells \X Cells
ShoulderPoints == {0} \X Cells
AnklePoints == Cells \X {0}
CrissPoses ==
    [lw : WristPoints, rw : WristPoints, ls : ShoulderPoints, rs : ShoulderPoints,
     la : AnklePoints, ra : AnklePoints]

hypot_below_Inclusive(p, q, limit) ==
    (p[1] - q[1]) * (p[1] - q[1]) + (p[2] - q[2]) * (p[2] - q[2]) <= limit * limit

\* math.hypot(dx, dy) < limit and >= limit on pixel coordinates, by squares.
hypot_below(p, q, limit) ==
    (p[1] - q[1]) * (p[1] - q[1]) + (p[2] - q[2]) * (p[2] - q[2]) < limit * limit

\* Lines 151-152
hands_joined(lw, rw, ls, rs) ==
    lw[2] < ls[2] /\ rw[2] < rs[2] /\ hypot_below(lw, rw, HandThreshold)

\* Lines 159-160
legs_apart(la, ra) == ~hypot_below(la, ra, LegThreshold)

\* Lines 134-162: the verdicts of a frame with landmarks.
criss_form(p) ==
    LET hands == hands_joined(p.lw, p.rw, p.ls, p.rs)
        legs == legs_apart(p.la, p.ra)
    IN  [detected |-> TRUE, hands_together |-> hands, legs_spread |-> legs,
         in_correct_position |-> hands /\ legs]

\* Lines 134 and 170-172: in_correct_position stays False; hands_together and
\* legs_spread are not assigned (they keep the previous frame's values).
NoForm == [detected |-> FALSE, in_correct_position |-> FALSE]

CrissFormOutcomes == {criss_form(p) : p \in CrissPoses}

\* The slider of line 221 ranges over 1..10 with 5 preset; two of its values.
BeepIntervals == {3, 5}

cue_due_Strict(now, last, interval) == now - last > interval

\* Line 175
cue_due(now, last, interval) == now - last >= interval

next_beep_time_NoReset(due, last, now2) == last

\* Lines 176-177: last_beep_time after the test; now2 is the second time.time().
next_beep_time(due, last, now2) == IF due THEN now2 ELSE last

\* Lines 222-224 and 109-124: the Start Criss Cross button, up to the loop head.
StartCrissCross ==
    /\ pc = "idle"
    /\ \E interval \in BeepIntervals, opened \in BOOLEAN :
        /\ beep_interval' = interval
        /\ pc' = IF opened THEN "cc_loop" ELSE "cc_exited"
    /\ stop_criss_cross' = FALSE
    /\ last_beep_time' = clock
    /\ prev_beep_time' = clock
    /\ check_time' = clock
    /\ UNCHANGED <<clock, plankVars, detected, angle, beeped, beeps, on_boundary,
                   formVars, points, serverVars>>

\* The on_click callback of the Stop Criss Cross button.
PressStopCrissCross ==
    /\ pc = "cc_loop"
    /\ ~stop_criss_cross
    /\ stop_criss_cross' = TRUE
    /\ UNCHANGED <<pc, clock, plankVars, detected, angle, beep_interval,
                   last_beep_time, check_time, beeped, beeps, prev_beep_time,
                   on_boundary, formVars, points, serverVars>>

\* Line 126 with the stop flag set, then cap.release().
CrissLoopExit ==
    /\ pc = "cc_loop"
    /\ stop_criss_cross
    /\ pc' = "cc_exited"
    /\ UNCHANGED <<clock, plankVars, detected, angle, crissVars, formVars,
                   points, serverVars>>

\* cap.read() fails: line 128-129.
CrissReadFails ==
    /\ pc = "cc_loop"
    /\ ~stop_criss_cross
    /\ pc' = "cc_exited"
    /\ UNCHANGED <<clock, plankVars, detected, angle, crissVars, formVars,
                   points, serverVars>>

\* One iteration of the loop with a frame read, lines 126-189.  gap is the time
\* from the previous reading of the clock to the test of line 175, busy the
\* time beepy.beep blocks before line 177 reads the clock again.
CrissFrame ==
    /\ pc = "cc_loop"
    /\ ~stop_criss_cross
    /\ \E gap \in 0..MaxGap, form \in {NoForm} \cup CrissFormOutcomes :
        LET now == clock + gap
            due == cue_due(now, last_beep_time, beep_interval)
        IN
        \E busy \in IF due THEN 0..MaxBeepTime ELSE {0} :
        LET now2 == now + busy
        IN  /\ now2 <= MaxCueClock
            /\ check_time' = now
            /\ clock' = now2
            /\ beeped' = due
            /\ beeps' = IF due THEN beeps + 1 ELSE beeps
            /\ prev_beep_time' = last_beep_time
            /\ last_beep_time' = next_beep_time(due, last_beep_time, now2)
            /\ on_boundary' = (on_boundary \/ (now > 0 /\ now % beep_interval = 0))
            /\ detected' = form.detected
            /\ in_correct_position' = form.in_correct_position
            /\ IF form.detected
               THEN /\ hands_together' = form.hands_together
                    /\ legs_spread' = form.legs_spread
               ELSE UNCHANGED <<hands_together, legs_spread>>
    /\ pc' = "cc_loop"
    /\ UNCHANGED <<plankVars, angle, beep_interval, stop_criss_cross, points,
                   serverVars>>

(***************************************************************************)
(* The desktop application: the script of src/app.py has run to its        *)
(* buttons; the session clock reads 0.                                     *)
(***************************************************************************)
InitRest ==
    /\ clock = 0
    /\ plank_mode = "Normal" /\ target_time = 1 /\ stop_plank = FALSE
    /\ last_time = 0 /\ delta = 0 /\ elapsed = 0 /\ remaining = 0
    /\ in_good_position = FALSE /\ prev_elapsed = 0
    /\ detected = FALSE /\ angle = <<>>
    /\ beep_interval = 5 /\ stop_criss_cross = FALSE /\ last_beep_time = 0
    /\ hands_together = FALSE /\ legs_spread = FALSE
    /\ in_correct_position = FALSE
    /\ check_time = 0 /\ beeped = FALSE /\ beeps = 0 /\ prev_beep_time = 0
    /\ on_boundary = FALSE

Init ==
    /\ pc = "idle"
    /\ InitRest
    /\ points = <<>>
    /\ frame_data = <<>> /\ result = <<>> /\ reply = <<>>

Next ==
    \/ StartPlank
    \/ PressStopPlank
    \/ PlankLoopExit
    \/ PlankReadFails
    \/ PlankFrame
    \/ StartCrissCross
    \/ PressStopCrissCross
    \/ CrissLoopExit
    \/ CrissReadFails
    \/ CrissFrame

Spec == Init /\ [][Next]_vars


(***************************************************************************)
(* The rhythmic verdict as a function of one frame's pose: the inputs are  *)
(* drawn by the initial state, the action evaluates lines 134-172.         *)
(***************************************************************************)
NoPose == [found |-> FALSE]
FoundPoses == {[found |-> TRUE] @@ p : p \in CrissPoses}

InitForm ==
    /\ pc = "form_input"
    /\ InitRest
    /\ points \in {NoPose} \cup FoundPoses
    /\ frame_data = <<>> /\ result = <<>> /\ reply = <<>>

EvalForm ==
    /\ pc = "form_input"
    /\ pc' = "form_judged"
    /\ detected' = points.found
    /\ IF points.found
       THEN LET form == criss_form(points)
            IN  /\ hands_together' = form.hands_together
                /\ legs_spread' = form.legs_spread
                /\ in_correct_position' = form.in_correct_position
       ELSE /\ in_correct_position' = NoForm.in_correct_position
            /\ UNCHANGED <<hands_together, legs_spread>>
    /\ UNCHANGED <<clock, plankVars, angle, crissVars, points, serverVars>>

NextForm == EvalForm

SpecForm == InitForm /\ [][NextForm]_vars

(***************************************************************************)
(* src/server/app.py: process_frame, the /analyze route and the 'frame'    *)
(* socket event.                                                           *)
(***************************************************************************)
\* Payloads the first test of process_frame rejects, payloads that fail while
\* decoding, and decodable images (with the pose the estimator finds in them
\* and the fault, if any, the environment produces while processing).
RejectedKinds == {"none", "empty", "number", "text"}
UndecodableKinds == {"nocomma", "badbase64", "notimage"}
MalformedKinds == RejectedKinds \cup UndecodableKinds
Faults == {"none", "io", "pose"}
Payloads ==
    {[kind |-> k, pose |-> <<>>, fault |-> "none"] : k \in MalformedKinds} \cup
    {[kind |-> "image", pose |-> p, fault |-> f] : p \in {<<>>} \cup Triples, f \in Faults}
AbsentPayload == [kind |-> "absent", pose |-> <<>>, fault |-> "none"]

\* Lines 149-154
DefaultResponse ==
    [posture_correct |-> FALSE, angle |-> <<>>, message |-> "No pose detected",
     landmarks |-> <<>>]

Outcome(e, v) == [exc |-> e, value |-> v]

\* Lines 213-254: the verdict of a frame with landmarks.
posture_response(pose) ==
    LET res == calculate_angle(pose[1], pose[2], pose[3])
        posture_correct == in_band(res.value)
    IN  IF res.exc # "none"
        THEN Outcome(res.exc, DefaultResponse)
        ELSE Outcome("none",
                 [posture_correct |-> posture_correct,
                  angle |-> <<res.value>>,
                  message |-> IF posture_correct THEN "Good posture!"
                              ELSE "Adjust your position!",
                  landmarks |-> pose])

\* Lines 157-254: the body of the try statement.
try_body(fd) ==
    IF fd.kind \in RejectedKinds
    THEN Outcome("none", DefaultResponse)                \* line 160-162
    ELSE IF fd.kind \in UndecodableKinds \/ fd.fault = "io"
    THEN Outcome("none", DefaultResponse)                \* lines 171-173, 184-187
    ELSE IF fd.fault = "pose"
    THEN Outcome("Exception", DefaultResponse)           \* lines 190-194 raise
    ELSE IF fd.pose = <<>>
    THEN Outcome("none", DefaultResponse)                \* lines 206-209
    ELSE posture_response(fd.pose)

outer_except_Missing(out) == out

\* Lines 256-259: except Exception: return response
outer_except(out) ==
    IF out.exc # "none" THEN Outcome("none", DefaultResponse) ELSE out

process_frame(fd) == outer_except(try_body(fd))

NoResult == Outcome("none", DefaultResponse)
NoReply == [route |-> "none", status |-> "none", error |-> FALSE, body |-> DefaultResponse]

\* Lines 139-146
analyze_reply(has_image, out) ==
    IF ~has_image
    THEN [route |-> "analyze", status |-> "400", error |-> TRUE, body |-> DefaultResponse]
    ELSE IF out.exc # "none"
    THEN [route |-> "analyze", status |-> "500", error |-> TRUE, body |-> DefaultResponse]
    ELSE [route |-> "analyze", status |-> "200", error |-> FALSE, body |-> out.value]

\* Line 121: len(frame_data) raises TypeError for a payload without a length.
has_len(fd) == fd.kind \notin {"none", "number"}

\* Lines 118-132
frame_reply(fd, out) ==
    IF ~has_len(fd)
    THEN [route |-> "frame", status |-> "TypeError", error |-> TRUE, body |-> DefaultResponse]
    ELSE IF out.exc # "none"
    THEN [route |-> "frame", status |-> out.exc, error |-> TRUE, body |-> DefaultResponse]
    ELSE [route |-> "frame", status |-> "pose_analysis", error |-> FALSE, body |-> out.value]

InitServer ==
    /\ pc = "serving"
    /\ InitRest
    /\ points = <<>>
    /\ frame_data = AbsentPayload /\ result = NoResult /\ reply = NoReply

\* POST /analyze
Analyze ==
    /\ pc = "serving"
    /\ pc' = "served"
    /\ \E has_image \in BOOLEAN, fd \in Payloads :
        LET out == process_frame(fd)
        IN  /\ frame_data' = IF has_image THEN fd ELSE AbsentPayload
            /\ result' = IF has_image THEN out ELSE NoResult
            /\ reply' = analyze_reply(has_image, out)
    /\ UNCHANGED <<clock, plankVars, detected, angle, crissVars, formVars, points>>

\* The 'frame' socket event
HandleFrame ==
    /\ pc = "serving"
    /\ pc' = "served"
    /\ \E fd \in Payloads :
        LET out == process_frame(fd)
        IN  /\ frame_data' = fd
            /\ result' = IF has_len(fd) THEN out ELSE NoResult
            /\ reply' = frame_reply(fd, out)
    /\ UNCHANGED <<clock, plankVars, detected, angle, crissVars, formVars, points>>

NextServer == Analyze \/ HandleFrame

SpecServer == InitServer /\ [][NextServer]_vars

(***************************************************************************)
(* calculate_angle and the band test of its callers as functions of three  *)
(* pixel points: the inputs are drawn by the initial state.                *)
(***************************************************************************)
InitAngle ==
    /\ pc = "angle_input"
    /\ InitRest
    /\ points \in Triples
    /\ frame_data = AbsentPayload /\ result = NoResult /\ reply = NoReply

\* run_plank_exercise, lines 67-79
PlankJudge ==
    /\ pc = "angle_input"
    /\ LET pose == [detected |-> TRUE,
                    res |-> calculate_angle(points[1], points[2], points[3])]
       IN  IF pose.res.exc # "none"
           THEN /\ pc' = "plank_crashed"
                /\ UNCHANGED <<angle, in_good_position>>
           ELSE /\ pc' = "plank_judged"
                /\ angle' = <<pose.res.value>>
                /\ in_good_position' = good_position(pose, in_good_position)
    /\ detected' = TRUE
    /\ UNCHANGED <<clock, plank_mode, target_time, stop_plank, last_time, delta,
                   elapsed, remaining, prev_elapsed, crissVars, formVars, points,
                   serverVars>>

\* process_frame, lines 223-254
ServerJudge ==
    /\ pc = "angle_input"
    /\ pc' = "server_judged"
    /\ frame_data' = [kind |-> "image", pose |-> points, fault |-> "none"]
    /\ result' = process_frame(frame_data')
    /\ UNCHANGED <<clock, plankVars, detected, angle, crissVars, formVars, points,
                   reply>>

NextAngle == PlankJudge \/ ServerJudge

SpecAngle == InitAngle /\ [][NextAngle]_vars


(***************************************************************************)
(* Claims.                                                                 *)
(***************************************************************************)
PlankSession ==
    pc \in {"plank_loop", "plank_complete", "plank_exited", "plank_crashed"}
CrissSession == pc \in {"cc_loop", "cc_exited"}

\* C1: in Hardcore (reset-on-break) mode, whatever good time has accrued, a
\* frame judged bad form leaves elapsed at exactly 0 at the end of the frame.
C1_ResetOnBreak ==
    (PlankSession /\ plank_mode = "Hardcore" /\ ~in_good_position) => elapsed = 0

C1_Witness ==
    /\ pc = "plank_loop" /\ plank_mode = "Hardcore"
    /\ detected /\ ~in_good_position
    /\ prev_elapsed > 0 /\ delta > 0 /\ elapsed = 0

\* C2: in Normal (pause-on-break) mode a frame judged bad form leaves elapsed
\* at its value of the end of the previous frame, whatever the frame's delta.
C2_PauseOnBreak ==
    (PlankSession /\ plank_mode = "Normal" /\ ~in_good_position)
        => elapsed = prev_elapsed

C2_Witness ==
    /\ pc = "plank_loop" /\ plank_mode = "Normal"
    /\ detected /\ ~in_good_position
    /\ prev_elapsed > 0 /\ delta > 0 /\ elapsed = prev_elapsed

\* C3: in both modes the session is complete exactly when elapsed >= target
\* duration at the end of a frame, and never while elapsed < target duration.
C3_CompleteIff ==
    PlankSession => (pc = "plank_complete" <=> elapsed >= target_time)

C3_Witness ==
    /\ pc = "plank_complete" /\ plank_mode = "Hardcore"
    /\ elapsed > target_time /\ prev_elapsed < target_time /\ prev_elapsed > 0

\* C4 as stated: with interval 5, once the evaluations span 12 ticks and none
\* fell exactly on a multiple of the interval, the cue has fired exactly twice.
C4_ExactlyTwice ==
    (pc = "cc_loop" /\ beep_interval = 5 /\ check_time = 12 /\ ~on_boundary)
        => beeps = 2

\* C4 amended: with interval 5, over evaluations within 12 ticks of the start
\* the cue fires at most twice: not before tick 5, at the latest on the first
\* evaluation at or after tick 5, and a second time not before tick 10.
C4_AtMostTwice ==
    (CrissSession /\ beep_interval = 5 /\ check_time <= 12) =>
        /\ beeps <= 2
        /\ (check_time < 5 => beeps = 0)
        /\ (check_time >= 5 => beeps >= 1)
        /\ (beeps >= 1 => last_beep_time >= 5)
        /\ (beeps = 2 => last_beep_time >= 10)

C4_Witness ==
    /\ pc = "cc_loop" /\ beep_interval = 5 /\ check_time = 12 /\ ~on_boundary
    /\ beeps = 2 /\ beeped /\ ~in_correct_position

\* C5: on every frame, whatever the form and whether or not landmarks were
\* found, the cue fires iff the time since the last firing (or the start)
\* reaches the interval; firing resets last_beep_time to the clock's reading,
\* not firing leaves it unchanged.
C5_CueIffDue ==
    CrissSession =>
        /\ beeped <=> (check_time - prev_beep_time >= beep_interval)
        /\ beeped => last_beep_time = clock
        /\ ~beeped => last_beep_time = prev_beep_time

C5_Witness ==
    /\ pc = "cc_loop" /\ beeped /\ ~detected
    /\ check_time - prev_beep_time > beep_interval
    /\ last_beep_time = clock /\ last_beep_time > check_time

\* C6: a plank frame without landmarks is a bad-form frame in both modes:
\* elapsed is 0 in Hardcore mode, unchanged in Normal mode, and never grows
\* by the frame's delta.
C6_NoLandmarksIsBreak ==
    (PlankSession /\ ~detected) =>
        /\ ~in_good_position
        /\ elapsed = IF plank_mode = "Hardcore" THEN 0 ELSE prev_elapsed
        /\ pc # "plank_complete"

C6_Witness ==
    /\ pc = "plank_loop" /\ plank_mode = "Normal" /\ ~detected
    /\ prev_elapsed > 0 /\ delta > 0 /\ elapsed = prev_elapsed
    /\ angle # <<>>

\* C7: with landmarks the verdict is (both wrists above their shoulders and
\* wrist distance < 100) and (ankle distance >= 150); an ankle distance of
\* exactly 150 is spread, a wrist distance of exactly 100 is not joined;
\* without landmarks the verdict is false.
C7_Verdict ==
    pc = "form_judged" =>
        IF points.found
        THEN LET wrists == (points.lw[1] - points.rw[1]) * (points.lw[1] - points.rw[1])
                           + (points.lw[2] - points.rw[2]) * (points.lw[2] - points.rw[2])
                 ankles == (points.la[1] - points.ra[1]) * (points.la[1] - points.ra[1])
                           + (points.la[2] - points.ra[2]) * (points.la[2] - points.ra[2])
             IN  in_correct_position <=>
                    /\ points.lw[2] < points.ls[2]
                    /\ points.rw[2] < points.rs[2]
                    /\ wrists < 100 * 100
                    /\ ankles >= 150 * 150
        ELSE ~in_correct_position

C7_Witness ==
    /\ pc = "form_judged" /\ points.found /\ in_correct_position
    /\ Abs(points.la[1] - points.ra[1]) = 150 /\ points.la[2] = points.ra[2]
    /\ points.lw # points.rw

\* C8: a malformed frame payload is surfaced by the /analyze route and the
\* 'frame' event as a request-level error, distinguishable from a successful
\* analysis in which no pose was detected.
C8_MalformedIsError ==
    (pc = "served" /\ frame_data.kind \in MalformedKinds) =>
        /\ reply.error
        /\ reply.status \notin {"200", "pose_analysis"}

\* C9: process_frame never raises; on every path but one it returns the
\* default verdict (False, None, "No pose detected", []); only with landmarks
\* detected and processing succeeding does it return a non-null angle.
C9_NeverRaises ==
    pc = "served" =>
        /\ result.exc = "none"
        /\ IF frame_data.kind = "image" /\ frame_data.pose # <<>>
              /\ frame_data.fault = "none"
           THEN result.value.angle # <<>> /\ result.value.landmarks # <<>>
           ELSE result.value = DefaultResponse

C9_Witness ==
    /\ pc = "served" /\ frame_data.kind = "image" /\ frame_data.pose # <<>>
    /\ frame_data.fault = "pose"
    /\ result.exc = "none" /\ result.value = DefaultResponse

\* C10: when A or C coincides with the vertex B, calculate_angle returns
\* exactly 0 without raising, and both callers judge the frame not good form.
C10_Degenerate ==
    (pc # "angle_input" /\ (points[1] = points[2] \/ points[3] = points[2])) =>
        /\ pc \in {"plank_judged", "server_judged"}
        /\ pc = "plank_judged" => (angle = <<0>> /\ ~in_good_position)
        /\ pc = "server_judged" =>
              /\ result.exc = "none"
              /\ result.value.angle = <<0>>
              /\ ~result.value.posture_correct

C10_Witness ==
    /\ pc = "server_judged"
    /\ points[3] = points[2] /\ points[1] # points[2]
    /\ result.value.angle = <<0>>
    /\ result.value.message = "Adjust your position!"


\* C11: for all inputs the angle calculate_angle returns lies in [0, 180]
\* degrees, because the cosine handed to the inverse cosine is clamped into
\* [-1, 1] (the quotient itself can leave that range by rounding).
C11_AngleRange ==
    pc # "angle_input" =>
        /\ pc \in {"plank_judged", "server_judged"}
        /\ pc = "plank_judged" =>
              /\ Len(angle) = 1
              /\ 0 <= angle[1] /\ angle[1] <= 180
        /\ pc = "server_judged" =>
              /\ Len(result.value.angle) = 1
              /\ 0 <= result.value.angle[1] /\ result.value.angle[1] <= 180

\* The quotient of line 17 for the points of the state, before the clamp.
C11_Quotient ==
    divide(dot_product(points[1], points[2], points[3]),
           norm_product(points[1], points[2], points[3])).value

C11_Witness ==
    /\ pc = "plank_judged"
    /\ norm_product(points[1], points[2], points[3]) # 0
    /\ C11_Quotient < -Scale
    /\ angle = <<180>>


(***************************************************************************)
(* The plank loop under a system clock that can be set back.  Lines 42 and *)
(* 45 read time.time(), the wall clock, which returns a lower value than   *)
(* an earlier call when the system clock was set back in between (a manual *)
(* change, a time-synchronisation step).  The clock is not set back below  *)
(* its reading at the start, nor again once elapsed is negative, which     *)
(* keeps elapsed bounded.                                                  *)
(***************************************************************************)
ClockSetBack ==
    /\ pc = "plank_loop"
    /\ elapsed >= 0
    /\ \E s \in 1..MaxSetBack :
        /\ clock - s >= 0
        /\ clock' = clock - s
    /\ UNCHANGED <<pc, plankVars, detected, angle, crissVars, formVars, points,
                   serverVars>>

NextSetBack == Next \/ ClockSetBack

SpecSetBack == Init /\ [][NextSetBack]_vars

\* C12: for any target duration > 0, in both modes and after any sequence
\* of good, bad and no-landmark frames, the session is complete only after a
\* frame itself judged good form, 0 <= elapsed at the end of every frame,
\* and the displayed remaining time lies in [0, target duration].
C12_ElapsedInRange ==
    PlankSession =>
        /\ pc = "plank_complete" => (detected /\ in_good_position)
        /\ 0 <= elapsed
        /\ 0 <= remaining /\ remaining <= target_time

====
